---- MODULE Spec2Model ----
(***************************************************************************)
(* goefivar: the EFI Load Option codec (efiboot.FromBytes / LoadOpt.Bytes) *)
(* and the boot-variable resolver (efiboot.BootOptions, BootCurrent,       *)
(* BootNext, BootOrder) over the firmware variable store of package        *)
(* efivar, the text views of the optional data (InterpretAsUTF8,           *)
(* InterpretAsUCS2) and the edit flow of cmd/efibootedit.                  *)
(*                                                                         *)
(* Bytes are naturals 0..255, Go strings and []byte are sequences of       *)
(* bytes, UCS-2 code units are naturals 0..65535.  The libefivar /         *)
(* libefiboot C entry points the Go code calls through cgo are modelled    *)
(* from the record layout of spec.md section 4.1; the Go code around them  *)
(* is modelled from the source.                                            *)
(***************************************************************************)
EXTENDS Integers, Sequences, FiniteSets, TLC

VARIABLES bs, lo, perr, edits, out, berr, pc, store, ret, unicodeArgs, tmpfile, var

vars == <<bs, lo, perr, edits, out, berr, pc, store, ret, unicodeArgs, tmpfile, var>>

codecVars == <<bs, lo, perr, edits, out, berr, pc>>

\* the state of one run of efibootedit: the unicode_data flag, the content
\* of the temporary file, the variable fetched
editVars == <<unicodeArgs, tmpfile, var>>

-----------------------------------------------------------------------------
(* Bounds of the model *)

\* longest description, in UCS-2 code units, of an input record
MaxDescUnits == 2
\* longest optional data, in bytes, of an input record
MaxOptLen == 2
\* most variables the store holds after a Set of a new variable
MaxVars == 4
\* longest data, in bytes, written to BootOrder, BootCurrent and BootNext
MaxIdxLen == 4

-----------------------------------------------------------------------------
(* Sequences of bytes *)

Min(a, b) == IF a < b THEN a ELSE b

\* all sequences over S of length at most n
SeqsUpTo(S, n) == UNION {[1..k -> S] : k \in 0..n}

\* the elements of s from index i (1-based) to the end
Drop(s, i) == SubSeq(s, i, Len(s))

\* a 16-bit value as two bytes, low byte first
LE16(n) == <<n % 256, (n \div 256) % 256>>

\* a 32-bit value, held as <<low 16 bits, high 16 bits>>, as four bytes,
\* low byte first
LE32(n) == LE16(n[1]) \o LE16(n[2])

\* the 16-bit little-endian value at 1-based index i of b
U16At(b, i) == b[i] + 256 * b[i + 1]

\* the 32-bit little-endian value at 1-based index i of b, as <<low 16
\* bits, high 16 bits>>
U32At(b, i) == <<U16At(b, i), U16At(b, i + 2)>>

-----------------------------------------------------------------------------
(* C strings across the cgo boundary *)

\* the bytes of s before its first NUL byte: what C reads of C.CString(s),
\* and what C.GoString reads of a C buffer
RECURSIVE CStr(_)
CStr(s) ==
    IF s = <<>> \/ Head(s) = 0 THEN <<>> ELSE <<Head(s)>> \o CStr(Tail(s))

-----------------------------------------------------------------------------
(* UCS-2 <-> UTF-8 conversion of the description (libefivar ucs2.h) *)

\* one UCS-2 code unit as UTF-8: 1, 2 or 3 bytes
ucs2_unit_to_utf8(u) ==
    IF u <= 127 THEN <<u>>
    ELSE IF u <= 2047 THEN <<192 + (u \div 64), 128 + (u % 64)>>
    ELSE <<224 + (u \div 4096), 128 + ((u \div 64) % 64), 128 + (u % 64)>>

\* the code units of a UCS-2 string up to its NUL terminator, as UTF-8
RECURSIVE ucs2_to_utf8(_)
ucs2_to_utf8(units) ==
    IF units = <<>> \/ Head(units) = 0 THEN <<>>
    ELSE ucs2_unit_to_utf8(Head(units)) \o ucs2_to_utf8(Tail(units))

\* a NUL-terminated UTF-8 C string as UCS-2 code units (no terminator)
RECURSIVE utf8_to_ucs2(_)
utf8_to_ucs2(s) ==
    IF s = <<>> \/ s[1] = 0 THEN <<>>
    ELSE IF s[1] >= 224 /\ s[1] < 240 /\ Len(s) >= 3
        THEN <<(s[1] % 16) * 4096 + (s[2] % 64) * 64 + (s[3] % 64)>>
             \o utf8_to_ucs2(Drop(s, 4))
    ELSE IF s[1] >= 192 /\ s[1] < 224 /\ Len(s) >= 2
        THEN <<(s[1] % 32) * 64 + (s[2] % 64)>> \o utf8_to_ucs2(Drop(s, 3))
    ELSE <<s[1] % 128>> \o utf8_to_ucs2(Drop(s, 2))

\* UCS-2 code units as bytes, each unit low byte first
RECURSIVE ucs2_bytes(_)
ucs2_bytes(units) ==
    IF units = <<>> THEN <<>> ELSE LE16(Head(units)) \o ucs2_bytes(Tail(units))

-----------------------------------------------------------------------------
(* Device paths (libefivar dp.h): a list of nodes <<type, subtype, length  *)
(* low, length high, data...>> closed by the End-Entire node 7F FF 04 00   *)

EndEntire == <<127, 255, 4, 0>>

\* dp is a well-formed device path filling its bytes exactly
RECURSIVE efidp_is_valid(_)
efidp_is_valid(dp) ==
    /\ Len(dp) >= 4
    /\ LET n == U16At(dp, 3) IN
        /\ n >= 4
        /\ n <= Len(dp)
        /\ IF SubSeq(dp, 1, 4) = EndEntire THEN Len(dp) = 4
           ELSE efidp_is_valid(Drop(dp, n + 1))

\* the text of a valid device path: per node before the End node a "/"
\* (47), the type and subtype as digits and the node's data bytes
RECURSIVE efidp_text(_)
efidp_text(dp) ==
    IF SubSeq(dp, 1, 4) = EndEntire THEN <<>>
    ELSE LET n == U16At(dp, 3) IN
        <<47, 48 + dp[1], 48 + dp[2]>> \o SubSeq(dp, 5, n) \o efidp_text(Drop(dp, n + 1))

\* efidp_format_device_path: the size of the text with its NUL terminator
\* and the text, or a negative size on a malformed path
efidp_format_device_path(dp) ==
    IF efidp_is_valid(dp)
    THEN [sz |-> Len(efidp_text(dp)) + 1, buf |-> efidp_text(dp) \o <<0>>]
    ELSE [sz |-> -1, buf |-> <<>>]

\* efivar.DevicePathToString
DevicePathToString(dp) ==
    LET r == efidp_format_device_path(dp) IN
    IF r.sz < 0 THEN [err |-> "efivar: getting device path string length failed", str |-> <<>>]
    ELSE [err |-> "nil", str |-> SubSeq(r.buf, 1, r.sz - 1)]

-----------------------------------------------------------------------------
(* The EFI Load Option record (libefiboot loadopt.h), spec.md section 4.1: *)
(* attributes (4 bytes), device-path length L (2 bytes), NUL-terminated    *)
(* UCS-2 description, L bytes of device path, optional data                *)

\* the UCS-2 code units held by the complete byte pairs of b from index i
RECURSIVE UnitsFrom(_, _)
UnitsFrom(b, i) ==
    IF i + 1 > Len(b) THEN <<>> ELSE <<U16At(b, i)>> \o UnitsFrom(b, i + 2)

\* the number of code units of units before the first NUL unit, or -1 when
\* there is no NUL unit
RECURSIVE ucs2len(_)
ucs2len(units) ==
    IF units = <<>> THEN -1
    ELSE IF Head(units) = 0 THEN 0
    ELSE LET n == ucs2len(Tail(units)) IN IF n < 0 THEN -1 ELSE n + 1

\* the 1-based index of the first device-path byte of a record whose
\* description is terminated
PathStart(b) == 7 + 2 * (ucs2len(UnitsFrom(b, 7)) + 1)

efi_loadopt_pathlen(b) == U16At(b, 5)

efi_loadopt_is_valid(b) ==
    /\ Len(b) >= 6
    /\ ucs2len(UnitsFrom(b, 7)) >= 0
    /\ PathStart(b) - 1 + efi_loadopt_pathlen(b) <= Len(b)

efi_loadopt_attrs(b) == U32At(b, 1)

efi_loadopt_desc(b) == ucs2_to_utf8(UnitsFrom(b, 7))

efi_loadopt_path(b) == SubSeq(b, PathStart(b), PathStart(b) - 1 + efi_loadopt_pathlen(b))

efi_loadopt_optional_data(b) == Drop(b, PathStart(b) + efi_loadopt_pathlen(b))

\* efi_loadopt_create(buf, size, ...): with size 0 the size the record
\* needs; otherwise the record rendered into the buffer, or -1
efi_loadopt_create(size, attributes, dp, description, optional_data) ==
    LET desc == ucs2_bytes(utf8_to_ucs2(CStr(description))) \o <<0, 0>>
        sz   == 4 + 2 + Len(desc) + Len(dp) + Len(optional_data)
    IN  IF size = 0 THEN [rc |-> sz, buf |-> <<>>]
        ELSE IF size < sz \/ ~efidp_is_valid(dp) THEN [rc |-> -1, buf |-> <<>>]
        ELSE [rc |-> sz,
              buf |-> LE32(attributes) \o LE16(Len(dp)) \o desc \o dp \o optional_data]

-----------------------------------------------------------------------------
(* efiboot.LoadOpt, efiboot.FromBytes, LoadOpt.Bytes *)

NoLoadOpt ==
    [Attributes |-> <<0, 0>>, Description |-> <<>>, FilePath |-> <<>>,
     rawFilePath |-> <<>>, OptionalData |-> <<>>]

ErrVariableCorrupted == "efiboot: variable content is not valid"

FromBytes(b) ==
    IF ~efi_loadopt_is_valid(b) THEN [err |-> ErrVariableCorrupted, lo |-> NoLoadOpt]
    ELSE LET dp    == efi_loadopt_path(b)
             dpStr == DevicePathToString(dp)
         IN  IF dpStr.err # "nil" THEN [err |-> " DevicePathToString", lo |-> NoLoadOpt]
             ELSE [err |-> "nil",
                   lo  |-> [Attributes   |-> efi_loadopt_attrs(b),
                            Description  |-> CStr(efi_loadopt_desc(b)),
                            FilePath     |-> dpStr.str,
                            rawFilePath  |-> dp,
                            OptionalData |-> efi_loadopt_optional_data(b)]]

\* Bytes with the optional data left out of the record
Bytes_noOptionalData(l) ==
    LET dpStr == DevicePathToString(l.rawFilePath) IN
    IF dpStr.err # "nil" THEN [err |-> "DevicePathToString", bytes |-> <<>>]
    ELSE IF dpStr.str # l.FilePath
        THEN [err |-> "changing device path is unimplemented", bytes |-> <<>>]
    ELSE LET r == efi_loadopt_create(65535, l.Attributes, l.rawFilePath, l.Description, <<>>)
         IN  IF r.rc < 0 THEN [err |-> "formatting output buffer", bytes |-> <<>>]
             ELSE [err |-> "nil", bytes |-> r.buf]

\* Bytes without the comparison of FilePath to the rendered device path
Bytes_noGuard(l) ==
    LET r == efi_loadopt_create(65535, l.Attributes, l.rawFilePath, l.Description,
                                l.OptionalData)
    IN  IF r.rc < 0 THEN [err |-> "formatting output buffer", bytes |-> <<>>]
        ELSE [err |-> "nil", bytes |-> r.buf]

\* Bytes passing zero for the attributes
Bytes_zeroAttributes(l) ==
    LET dpStr == DevicePathToString(l.rawFilePath) IN
    IF dpStr.err # "nil" THEN [err |-> "DevicePathToString", bytes |-> <<>>]
    ELSE IF dpStr.str # l.FilePath
        THEN [err |-> "changing device path is unimplemented", bytes |-> <<>>]
    ELSE LET r == efi_loadopt_create(65535, <<0, 0>>, l.rawFilePath, l.Description,
                                     l.OptionalData)
         IN  IF r.rc < 0 THEN [err |-> "formatting output buffer", bytes |-> <<>>]
             ELSE [err |-> "nil", bytes |-> r.buf]

Bytes(l) ==
    LET dpStr == DevicePathToString(l.rawFilePath) IN
    IF dpStr.err # "nil" THEN [err |-> "DevicePathToString", bytes |-> <<>>]
    ELSE IF dpStr.str # l.FilePath
        THEN [err |-> "changing device path is unimplemented", bytes |-> <<>>]
    ELSE LET attrs == l.Attributes
             sz == efi_loadopt_create(0, attrs, l.rawFilePath, l.Description,
                                      l.OptionalData).rc
         IN  IF sz < 0 THEN [err |-> "finding size of output buffer", bytes |-> <<>>]
             ELSE LET r == efi_loadopt_create(sz, attrs, l.rawFilePath, l.Description,
                                              l.OptionalData)
                  IN  IF r.rc < 0 THEN [err |-> "formatting output buffer", bytes |-> <<>>]
                      ELSE [err |-> "nil", bytes |-> SubSeq(r.buf, 1, sz)]

-----------------------------------------------------------------------------
(* Variable names (Go strings, as bytes) *)

GlobalUUID == "8be4df61-93ca-11d2-aa0d-00e098032b8c"
VendorUUID == "74552304-ce9f-4e52-89a0-f6c6fa47deac"

\* "Boot"
BootStr == <<66, 111, 111, 116>>
\* "Boot0000"
Boot0000Str == BootStr \o <<48, 48, 48, 48>>
\* "BootNext"
BootNextStr == BootStr \o <<78, 101, 120, 116>>
\* "BootOrder"
BootOrderStr == BootStr \o <<79, 114, 100, 101, 114>>
\* "BootCurrent"
BootCurrentStr == BootStr \o <<67, 117, 114, 114, 101, 110, 116>>

BootCurrentName == [GUID |-> GlobalUUID, Name |-> BootCurrentStr]
BootNextName == [GUID |-> GlobalUUID, Name |-> BootNextStr]
BootOrderName == [GUID |-> GlobalUUID, Name |-> BootOrderStr]

\* strings.HasPrefix
HasPrefix(s, prefix) == Len(s) >= Len(prefix) /\ SubSeq(s, 1, Len(prefix)) = prefix

\* a < b on Go strings: bytewise lexicographic order
StrLess(a, b) ==
    \E i \in 1..(Min(Len(a), Len(b)) + 1) :
        /\ SubSeq(a, 1, i - 1) = SubSeq(b, 1, i - 1)
        /\ IF i > Len(a) THEN i <= Len(b)
           ELSE i <= Len(b) /\ a[i] < b[i]

\* fmt's %X of one hexadecimal digit
HexDigit(n) == IF n < 10 THEN 48 + n ELSE 55 + n

\* fmt's %02X of a byte
Fmt02X(b) == <<HexDigit(b \div 16), HexDigit(b % 16)>>

-----------------------------------------------------------------------------
(* The firmware variable store (efivar.Get / Set / Delete / Variables) *)

\* the store: the variables [vn |-> VariableName, Data |-> bytes] in the
\* order efi_get_next_variable_name yields them, no name twice
EmptyStore == <<>>

\* nothing has been called yet
NoRet == [op |-> "none"]

\* the names of the variables in the store
NamesIn(st) == {st[i].vn : i \in DOMAIN st}

\* the data stored under the name vn, which is in the store
DataOf(st, vn) == st[CHOOSE i \in DOMAIN st : st[i].vn = vn].Data

\* a nil *efivar.Variable
NilVariable == [nil |-> TRUE, GUID |-> "", Name |-> <<>>, Data |-> <<>>]

\* the zero efivar.VariableName
ZeroName == [GUID |-> "", Name |-> <<>>]

\* vn.Get(): fails on a variable that is absent or that the firmware
\* refuses to read
Get(st, vn, unreadable) ==
    IF vn \notin NamesIn(st) \/ vn \in unreadable
    THEN [err |-> "errno", v |-> NilVariable]
    ELSE [err |-> "nil",
          v   |-> [nil |-> FALSE, GUID |-> vn.GUID, Name |-> vn.Name,
                   Data |-> DataOf(st, vn)]]

\* v.Set(mode): the store with data under the name vn
Set(st, vn, data) ==
    IF vn \in NamesIn(st)
    THEN [i \in DOMAIN st |-> IF st[i].vn = vn THEN [vn |-> vn, Data |-> data] ELSE st[i]]
    ELSE Append(st, [vn |-> vn, Data |-> data])

\* efivar.Variables(): the names in the order the firmware lists them, or
\* the error of a failed listing
Variables(st, errno) ==
    IF errno THEN [err |-> "errno", vns |-> <<>>]
    ELSE [err |-> "nil", vns |-> [i \in DOMAIN st |-> st[i].vn]]

-----------------------------------------------------------------------------
(* efiboot.BootOptions *)

FromVariable(v) == FromBytes(v.Data)

\* the loop's filter with the BootNext exclusion left out
Skipped_keepsBootNext(vn) ==
    \/ vn.GUID # GlobalUUID
    \/ ~HasPrefix(vn.Name, BootStr) \/ Len(vn.Name) # Len(Boot0000Str)

\* the two "continue" conditions of the loop of BootOptions
Skipped(vn) ==
    \/ vn.GUID # GlobalUUID
    \/ ~HasPrefix(vn.Name, BootStr) \/ Len(vn.Name) # Len(Boot0000Str)
       \/ vn.Name = BootNextStr

\* bo inserted into the sorted slice sorted
RECURSIVE InsertSorted(_, _)
InsertSorted(bo, sorted) ==
    IF sorted = <<>> THEN <<bo>>
    ELSE IF StrLess(bo.Variable.Name, Head(sorted).Variable.Name) THEN <<bo>> \o sorted
    ELSE <<Head(sorted)>> \o InsertSorted(bo, Tail(sorted))

\* the slice left in the order of the listing
SortSlice_unsorted(bos) == bos

\* sort.Slice(bos, func(i, j) { return bos[i].Variable.Name < bos[j].Variable.Name })
RECURSIVE SortSlice(_)
SortSlice(bos) ==
    IF bos = <<>> THEN <<>> ELSE InsertSorted(Head(bos), SortSlice(Tail(bos)))

\* the loop of BootOptions over the rest vns of the listing; fetched is
\* the set of names Get was called on
RECURSIVE BootOptionsLoop(_, _, _, _, _)
BootOptionsLoop(st, vns, unreadable, bos, fetched) ==
    IF vns = <<>>
    THEN [outcome |-> "ok", err |-> "nil", bos |-> SortSlice(bos), fetched |-> fetched]
    ELSE LET vn == Head(vns) IN
        IF Skipped(vn) THEN BootOptionsLoop(st, Tail(vns), unreadable, bos, fetched)
        ELSE LET g == Get(st, vn, unreadable) IN
            IF g.err # "nil"
            THEN \* the message is built from v.Name, and v is nil
                 IF g.v.nil
                 THEN [outcome |-> "panic", err |-> "nil pointer dereference",
                       bos |-> <<>>, fetched |-> fetched \cup {vn}]
                 ELSE [outcome |-> "error", err |-> "efiboot: getting variable",
                       bos |-> <<>>, fetched |-> fetched \cup {vn}]
            ELSE LET p == FromVariable(g.v) IN
                IF p.err # "nil"
                THEN [outcome |-> "error", err |-> "efiboot: parsing variable",
                      bos |-> <<>>, fetched |-> fetched \cup {vn}]
                ELSE BootOptionsLoop(st, Tail(vns), unreadable,
                                     Append(bos, [Variable |-> g.v, LoadOpt |-> p.lo]),
                                     fetched \cup {vn})

BootOptions(st, errno, unreadable) ==
    LET l == Variables(st, errno) IN
    IF l.err # "nil"
    THEN [outcome |-> "error", err |-> "efiboot: listing variables", bos |-> <<>>,
          fetched |-> {}]
    ELSE BootOptionsLoop(st, l.vns, unreadable, <<>>, {})

-----------------------------------------------------------------------------
(* efiboot.BootCurrent, BootNext, BootOrder *)

\* the name with the two bytes in stored order
IndexName_storedOrder(data, n) ==
    [GUID |-> GlobalUUID,
     Name |-> BootStr \o Fmt02X(data[(n * 2) + 1]) \o Fmt02X(data[(n * 2) + 1 + 1])]

\* the name of the n-th (0-based) index of data
IndexName(data, n) ==
    [GUID |-> GlobalUUID,
     Name |-> BootStr \o Fmt02X(data[(n * 2) + 1 + 1]) \o Fmt02X(data[(n * 2) + 1])]

\* varsInOtherVar without the test of the length's parity
varsInOtherVar_anyLength(st, vn, unreadable) ==
    LET g == Get(st, vn, unreadable) IN
    IF g.err # "nil" THEN [err |-> g.err, names |-> <<>>]
    ELSE [err |-> "nil",
          names |-> [n \in 1..(Len(g.v.Data) \div 2) |-> IndexName(g.v.Data, n - 1)]]

varsInOtherVar(st, vn, unreadable) ==
    LET g == Get(st, vn, unreadable) IN
    IF g.err # "nil" THEN [err |-> g.err, names |-> <<>>]
    ELSE IF Len(g.v.Data) % 2 = 1 THEN [err |-> ErrVariableCorrupted, names |-> <<>>]
    ELSE [err |-> "nil",
          names |-> [n \in 1..(Len(g.v.Data) \div 2) |-> IndexName(g.v.Data, n - 1)]]

\* varInOtherVar taking the first of one or more names
varInOtherVar_first(st, vn, unreadable) ==
    LET outs == varsInOtherVar(st, vn, unreadable) IN
    IF outs.err # "nil" THEN [err |-> outs.err, name |-> ZeroName]
    ELSE IF Len(outs.names) < 1 THEN [err |-> ErrVariableCorrupted, name |-> ZeroName]
    ELSE [err |-> "nil", name |-> outs.names[1]]

varInOtherVar(st, vn, unreadable) ==
    LET outs == varsInOtherVar(st, vn, unreadable) IN
    IF outs.err # "nil" THEN [err |-> outs.err, name |-> ZeroName]
    ELSE IF Len(outs.names) # 1 THEN [err |-> ErrVariableCorrupted, name |-> ZeroName]
    ELSE [err |-> "nil", name |-> outs.names[1]]

BootCurrent(st, unreadable) == varInOtherVar(st, BootCurrentName, unreadable)
BootNext(st, unreadable) == varInOtherVar(st, BootNextName, unreadable)
BootOrder(st, unreadable) == varsInOtherVar(st, BootOrderName, unreadable)

-----------------------------------------------------------------------------
(* Codec sessions: FromBytes(bs), field assignments on the LoadOpt, Bytes() *)

InputAttrs == {<<1, 0, 0, 0>>, <<8, 1, 0, 128>>}

\* 'P', U+00E9, U+20AC
InputUnits == {80, 233, 8364}

\* a File node holding one data byte
FileNode == <<4, 4, 5, 0, 92>>

InputPaths == {EndEntire, FileNode \o EndEntire, FileNode, EndEntire \o EndEntire}

InputOptBytes == {0, 104}

\* records assembled from fields, the length field right or wrong, the
\* description terminated or not
FullRecords ==
    {a \o LE16(l) \o ucs2_bytes(d) \o t \o p \o o :
        a \in InputAttrs,
        d \in SeqsUpTo(InputUnits, MaxDescUnits),
        t \in {<<0, 0>>, <<>>},
        p \in InputPaths,
        l \in 0..10,
        o \in SeqsUpTo(InputOptBytes, MaxOptLen)}

InputRecords ==
    {r \in FullRecords : U16At(r, 5) \in {0, 4, 9, 10}}
    \cup {SubSeq(r, 1, k) : r \in {<<1, 0, 0, 0, 4, 0, 0, 0>> \o EndEntire}, k \in 0..11}

\* "", "M", "M" U+00E9 U+20AC, "a" NUL "b"
NewDescriptions == {<<>>, <<77>>, <<77, 195, 169, 226, 130, 172>>, <<97, 0, 98>>}

\* "", "h" NUL, "hello"
NewOptionalData == {<<104, 0>>, <<104, 101, 108, 108, 111>>}

\* "foo", and the texts of the two well-formed input paths
NewFilePaths == {<<102, 111, 111>>, <<>>, <<47, 52, 52, 92>>}

NewAttributes == {<<0, 0>>}

\* efibootedit is not running
EditIdle ==
    /\ unicodeArgs = TRUE
    /\ tmpfile = <<>>
    /\ var = NilVariable

InitCodec ==
    /\ EditIdle
    /\ bs \in InputRecords
    /\ lo = NoLoadOpt
    /\ perr = "none"
    /\ edits = {}
    /\ out = <<>>
    /\ berr = "none"
    /\ pc = "input"
    /\ store = EmptyStore
    /\ ret = NoRet

\* lo, err := FromBytes(bs)
CallFromBytes ==
    /\ pc = "input"
    /\ LET r == FromBytes(bs) IN
        /\ perr' = r.err
        /\ lo' = r.lo
        /\ pc' = IF r.err = "nil" THEN "parsed" ELSE "rejected"
    /\ UNCHANGED <<bs, edits, out, berr, store, ret, editVars>>

\* lo.Description = d
SetDescription(d) ==
    /\ pc = "parsed"
    /\ lo' = [lo EXCEPT !.Description = d]
    /\ edits' = edits \cup {"Description"}
    /\ UNCHANGED <<bs, perr, out, berr, pc, store, ret, editVars>>

\* lo.OptionalData = o
SetOptionalData(o) ==
    /\ pc = "parsed"
    /\ lo' = [lo EXCEPT !.OptionalData = o]
    /\ edits' = edits \cup {"OptionalData"}
    /\ UNCHANGED <<bs, perr, out, berr, pc, store, ret, editVars>>

\* lo.FilePath = p
SetFilePath(p) ==
    /\ pc = "parsed"
    /\ lo' = [lo EXCEPT !.FilePath = p]
    /\ edits' = edits \cup {"FilePath"}
    /\ UNCHANGED <<bs, perr, out, berr, pc, store, ret, editVars>>

\* lo.Attributes = a
SetAttributes(a) ==
    /\ pc = "parsed"
    /\ lo' = [lo EXCEPT !.Attributes = a]
    /\ edits' = edits \cup {"Attributes"}
    /\ UNCHANGED <<bs, perr, out, berr, pc, store, ret, editVars>>

\* out, err := lo.Bytes()
CallBytes ==
    /\ pc = "parsed"
    /\ LET r == Bytes(lo) IN
        /\ out' = r.bytes
        /\ berr' = r.err
    /\ pc' = "done"
    /\ UNCHANGED <<bs, lo, perr, edits, store, ret, editVars>>

NextCodec ==
    \/ CallFromBytes
    \/ \E d \in NewDescriptions : SetDescription(d)
    \/ \E o \in NewOptionalData : SetOptionalData(o)
    \/ \E p \in NewFilePaths : SetFilePath(p)
    \/ \E a \in NewAttributes : SetAttributes(a)
    \/ CallBytes

SpecCodec == InitCodec /\ [][NextCodec]_vars

-----------------------------------------------------------------------------
(* The store and the resolver: Set and Delete change the store, the calls  *)
(* of BootOptions, BootCurrent, BootNext and BootOrder read it             *)

Boot0001Name == [GUID |-> GlobalUUID, Name |-> BootStr \o <<48, 48, 48, 49>>]
Boot000AName == [GUID |-> GlobalUUID, Name |-> BootStr \o <<48, 48, 48, 65>>]
\* "BootTest"
BootTestName == [GUID |-> GlobalUUID, Name |-> BootStr \o <<84, 101, 115, 116>>]
\* "BootSomethingLong"
BootSomethingLongName ==
    [GUID |-> GlobalUUID,
     Name |-> BootStr \o <<83, 111, 109, 101, 116, 104, 105, 110, 103, 76, 111, 110, 103>>]
\* "Boot0002" of another vendor
VendorBoot0002Name == [GUID |-> VendorUUID, Name |-> BootStr \o <<48, 48, 48, 50>>]

IndexNames == {BootOrderName, BootCurrentName, BootNextName}

EnumNames ==
    {Boot0001Name, Boot000AName, BootTestName, VendorBoot0002Name} \cup IndexNames

\* a Load Option: attributes 1, description "P", the empty device path,
\* optional data "h"
GoodRecord == <<1, 0, 0, 0, 4, 0, 80, 0, 0, 0>> \o EndEntire \o <<104>>

\* too short for a Load Option
CorruptRecord == <<1, 0, 0>>

\* the data the enumeration runs hold under a name
EnumData(vn) ==
    IF vn = BootOrderName THEN {<<1, 0, 10, 0>>}
    ELSE IF vn = BootCurrentName THEN {<<1, 0>>}
    ELSE IF vn = BootNextName THEN {<<1, 0>>, GoodRecord}
    ELSE IF vn \in {Boot0001Name, Boot000AName, BootTestName} THEN {GoodRecord, CorruptRecord}
    ELSE {GoodRecord}

\* the names of the store of spec.md section 8, property 6
ExampleNames == {Boot0001Name, Boot000AName, BootSomethingLongName} \cup IndexNames

\* the stores holding exactly the names in S, in any order, each name with
\* any of its data
StoresOver(S) ==
    {st \in [1..Cardinality(S) ->
                UNION {{[vn |-> v, Data |-> d] : d \in EnumData(v)} : v \in S}] :
        \A i, j \in DOMAIN st : i # j => st[i].vn # st[j].vn}

\* the sets of names of the stores enumerated: at most MaxVars of
\* EnumNames, or the names of the example store
EnumNameSets == {T \in SUBSET EnumNames : Cardinality(T) <= MaxVars} \cup {ExampleNames}

\* the example store, listed in the order of spec.md
ExampleStore ==
    <<[vn |-> Boot0001Name, Data |-> GoodRecord], [vn |-> Boot000AName, Data |-> GoodRecord],
      [vn |-> BootOrderName, Data |-> <<1, 0, 10, 0>>], [vn |-> BootNextName, Data |-> <<1, 0>>],
      [vn |-> BootCurrentName, Data |-> <<1, 0>>],
      [vn |-> BootSomethingLongName, Data |-> GoodRecord]>>

IdxBytes == {0, 58, 171}

\* the data the index runs hold under BootOrder, BootCurrent, BootNext
IdxData == SeqsUpTo(IdxBytes, MaxIdxLen)

\* the example store, the store holding Boot0001 alone, and each of them
\* with one of the index variables set to any index data
IndexStores ==
    LET base == {ExampleStore, <<[vn |-> Boot0001Name, Data |-> GoodRecord]>>} IN
    base \cup {Set(st, vn, d) : st \in base, vn \in IndexNames, d \in IdxData}

\* bos, err := BootOptions(), the listing failing when errno and the
\* firmware refusing to read the variables in unreadable
CallBootOptions(errno, unreadable) ==
    /\ ret = NoRet
    /\ LET r == BootOptions(store, errno, unreadable) IN
        ret' = [op |-> "BootOptions", errno |-> errno, unreadable |-> unreadable,
                outcome |-> r.outcome, err |-> r.err, bos |-> r.bos,
                fetched |-> r.fetched]
    /\ UNCHANGED <<store, codecVars, editVars>>

\* vn, err := BootCurrent()
CallBootCurrent(unreadable) ==
    /\ ret = NoRet
    /\ LET r == BootCurrent(store, unreadable) IN
        ret' = [op |-> "BootCurrent", unreadable |-> unreadable, err |-> r.err,
                name |-> r.name]
    /\ UNCHANGED <<store, codecVars, editVars>>

\* vn, err := BootNext()
CallBootNext(unreadable) ==
    /\ ret = NoRet
    /\ LET r == BootNext(store, unreadable) IN
        ret' = [op |-> "BootNext", unreadable |-> unreadable, err |-> r.err,
                name |-> r.name]
    /\ UNCHANGED <<store, codecVars, editVars>>

\* vns, err := BootOrder()
CallBootOrder(unreadable) ==
    /\ ret = NoRet
    /\ LET r == BootOrder(store, unreadable) IN
        ret' = [op |-> "BootOrder", unreadable |-> unreadable, err |-> r.err,
                names |-> r.names]
    /\ UNCHANGED <<store, codecVars, editVars>>

CodecIdle ==
    /\ bs = <<>>
    /\ lo = NoLoadOpt
    /\ perr = "none"
    /\ edits = {}
    /\ out = <<>>
    /\ berr = "none"
    /\ pc = "idle"
    /\ EditIdle

\* one enumeration of any of the stores
InitEnum ==
    /\ CodecIdle
    /\ \E S \in EnumNameSets : store \in StoresOver(S)
    /\ ret = NoRet

NextEnum ==
    \/ \E unreadable \in {{}} \cup {{vn} : vn \in NamesIn(store)} :
        CallBootOptions(FALSE, unreadable)
    \/ CallBootOptions(TRUE, {})

SpecEnum == InitEnum /\ [][NextEnum]_vars

\* one index resolution over any of the index stores
InitIndex ==
    /\ CodecIdle
    /\ store \in IndexStores
    /\ ret = NoRet

NextIndex ==
    \/ \E u \in SUBSET {BootCurrentName} : CallBootCurrent(u)
    \/ \E u \in SUBSET {BootNextName} : CallBootNext(u)
    \/ \E u \in SUBSET {BootOrderName} : CallBootOrder(u)

SpecIndex == InitIndex /\ [][NextIndex]_vars

-----------------------------------------------------------------------------
(* Optional data as text: OptionalData.InterpretAsUTF8 and                 *)
(* OptionalData.InterpretAsUCS2.  A rune is a natural 0..0x10FFFF, a Go    *)
(* string is its UTF-8 bytes                                               *)

\* longest optional data, in bytes, given to the text views
MaxTextLen == 4

\* a | b on unsigned integers
RECURSIVE BitOr(_, _)
BitOr(a, b) ==
    IF a = 0 THEN b
    ELSE IF b = 0 THEN a
    ELSE (IF a % 2 = 1 \/ b % 2 = 1 THEN 1 ELSE 0) + 2 * BitOr(a \div 2, b \div 2)

\* b << 8 on a byte: the result keeps the width of the byte
ByteShl8(b) == (b * 256) % 256

\* string(rune): the UTF-8 bytes of r, those of U+FFFD for a surrogate or
\* a value past U+10FFFF
EncodeRune(r) ==
    IF r <= 127 THEN <<r>>
    ELSE IF r <= 2047 THEN <<192 + (r \div 64), 128 + (r % 64)>>
    ELSE IF (r >= 55296 /\ r <= 57343) \/ r > 1114111 THEN <<239, 191, 189>>
    ELSE IF r <= 65535
        THEN <<224 + (r \div 4096), 128 + ((r \div 64) % 64), 128 + (r % 64)>>
    ELSE <<240 + (r \div 262144), 128 + ((r \div 4096) % 64),
           128 + ((r \div 64) % 64), 128 + (r % 64)>>

\* string([]rune)
RECURSIVE RunesToString(_)
RunesToString(rs) ==
    IF rs = <<>> THEN <<>> ELSE EncodeRune(Head(rs)) \o RunesToString(Tail(rs))

\* utf16.Decode: a high surrogate followed by a low surrogate is one rune,
\* any other surrogate is U+FFFD
RECURSIVE utf16_Decode(_)
utf16_Decode(s) ==
    IF s = <<>> THEN <<>>
    ELSE IF s[1] < 55296 \/ s[1] >= 57344 THEN <<s[1]>> \o utf16_Decode(Tail(s))
    ELSE IF s[1] < 56320 /\ Len(s) >= 2 /\ s[2] >= 56320 /\ s[2] < 57344
        THEN <<65536 + (s[1] - 55296) * 1024 + (s[2] - 56320)>>
             \o utf16_Decode(Drop(s, 3))
    ELSE <<65533>> \o utf16_Decode(Tail(s))

\* d.InterpretAsUTF8()
InterpretAsUTF8(d) == d

\* the loop of InterpretAsUCS2 from the 0-based index n on: the code units
\* d16, or a panic on an index past the end of d
RECURSIVE UCS2Loop(_, _)
UCS2Loop(d, n) ==
    IF n >= Len(d) THEN [panic |-> FALSE, d16 |-> <<>>]
    ELSE IF n + 1 >= Len(d) THEN [panic |-> TRUE, d16 |-> <<>>]
    ELSE LET rest == UCS2Loop(d, n + 2) IN
        [panic |-> rest.panic,
         d16   |-> <<BitOr(d[n + 1], ByteShl8(d[n + 2]))>> \o rest.d16]

\* InterpretAsUCS2 with the length test left out
InterpretAsUCS2_noLengthTest(d) ==
    LET r == UCS2Loop(d, 0) IN
    IF r.panic THEN [outcome |-> "panic", str |-> <<>>]
    ELSE [outcome |-> "returned", str |-> RunesToString(utf16_Decode(r.d16))]

\* d.InterpretAsUCS2()
InterpretAsUCS2(d) ==
    IF Len(d) % 2 # 0 THEN [outcome |-> "returned", str |-> <<>>]
    ELSE LET r == UCS2Loop(d, 0) IN
        IF r.panic THEN [outcome |-> "panic", str |-> <<>>]
        ELSE [outcome |-> "returned", str |-> RunesToString(utf16_Decode(r.d16))]

\* NUL, ':', and the high bytes of a high and of a low surrogate
TextBytes == {0, 58, 216, 220}

\* the optional data viewed as text: all data over TextBytes, and ':' under
\* every high byte
TextData == SeqsUpTo(TextBytes, MaxTextLen) \cup {<<58, h>> : h \in 0..255}

\* a LoadOpt holding any of the optional data
InitText ==
    /\ bs = <<>>
    /\ lo \in {[NoLoadOpt EXCEPT !.OptionalData = d] : d \in TextData}
    /\ perr = "nil"
    /\ edits = {}
    /\ out = <<>>
    /\ berr = "none"
    /\ pc = "parsed"
    /\ store = EmptyStore
    /\ ret = NoRet
    /\ EditIdle

\* lo.OptionalData.InterpretAsUTF8()
CallInterpretAsUTF8 ==
    /\ ret = NoRet
    /\ ret' = [op |-> "InterpretAsUTF8", outcome |-> "returned",
               str |-> InterpretAsUTF8(lo.OptionalData)]
    /\ UNCHANGED <<store, codecVars, editVars>>

\* lo.OptionalData.InterpretAsUCS2()
CallInterpretAsUCS2 ==
    /\ ret = NoRet
    /\ LET r == InterpretAsUCS2(lo.OptionalData) IN
        ret' = [op |-> "InterpretAsUCS2", outcome |-> r.outcome, str |-> r.str]
    /\ UNCHANGED <<store, codecVars, editVars>>

NextText ==
    \/ CallInterpretAsUTF8
    \/ CallInterpretAsUCS2

SpecText == InitText /\ [][NextText]_vars

-----------------------------------------------------------------------------
(* efibootedit: main fetches the variable named on the command line,       *)
(* writes the text view of its optional data to a temporary file, runs the *)
(* editor on the file, and writes the variable back with the optional data *)
(* read from the file                                                      *)

\* the second byte of a UTF-8 sequence starting with b is acceptable
UTF8Second(b, c) ==
    IF b = 224 THEN c >= 160 /\ c <= 191
    ELSE IF b = 237 THEN c >= 128 /\ c <= 159
    ELSE IF b = 240 THEN c >= 144 /\ c <= 191
    ELSE IF b = 244 THEN c >= 128 /\ c <= 143
    ELSE c >= 128 /\ c <= 191

\* a continuation byte
UTF8Cont(c) == c >= 128 /\ c <= 191

\* []rune(string(b)): each well-formed UTF-8 sequence is its rune, every
\* other byte is U+FFFD
RECURSIVE StringToRunes(_)
StringToRunes(s) ==
    IF s = <<>> THEN <<>>
    ELSE IF s[1] < 128 THEN <<s[1]>> \o StringToRunes(Drop(s, 2))
    ELSE IF s[1] >= 194 /\ s[1] <= 223 /\ Len(s) >= 2 /\ UTF8Cont(s[2])
        THEN <<(s[1] % 32) * 64 + (s[2] % 64)>> \o StringToRunes(Drop(s, 3))
    ELSE IF s[1] >= 224 /\ s[1] <= 239 /\ Len(s) >= 3 /\ UTF8Second(s[1], s[2])
            /\ UTF8Cont(s[3])
        THEN <<(s[1] % 16) * 4096 + (s[2] % 64) * 64 + (s[3] % 64)>>
             \o StringToRunes(Drop(s, 4))
    ELSE IF s[1] >= 240 /\ s[1] <= 244 /\ Len(s) >= 4 /\ UTF8Second(s[1], s[2])
            /\ UTF8Cont(s[3]) /\ UTF8Cont(s[4])
        THEN <<(s[1] % 8) * 262144 + (s[2] % 64) * 4096 + (s[3] % 64) * 64 + (s[4] % 64)>>
             \o StringToRunes(Drop(s, 5))
    ELSE <<65533>> \o StringToRunes(Drop(s, 2))

\* utf16.Encode: a rune past U+FFFF is a surrogate pair, a surrogate or a
\* value past U+10FFFF is U+FFFD
RECURSIVE utf16_Encode(_)
utf16_Encode(rs) ==
    IF rs = <<>> THEN <<>>
    ELSE LET r == Head(rs) IN
        (IF (r >= 55296 /\ r <= 57343) \/ r > 1114111 THEN <<65533>>
         ELSE IF r < 65536 THEN <<r>>
         ELSE <<55296 + ((r - 65536) \div 1024), 56320 + ((r - 65536) % 1024)>>)
        \o utf16_Encode(Tail(rs))

\* dataBytes: each code unit as b16 & 0xff, then (b16 >> 8) & 0xff
RECURSIVE dataBytes(_)
dataBytes(d16) ==
    IF d16 = <<>> THEN <<>>
    ELSE <<Head(d16) % 256, (Head(d16) \div 256) % 256>> \o dataBytes(Tail(d16))

\* the optional data main stores for the content newData of the file
NewOptionalDataOf(newData, unicode) ==
    IF unicode THEN dataBytes(utf16_Encode(StringToRunes(newData))) ELSE newData

\* a Load Option of attributes 1, description "P" and the empty device
\* path, up to its optional data
EditHeader == <<1, 0, 0, 0, 4, 0, 80, 0, 0, 0>> \o EndEntire

\* the stores edited: Boot0001 holding a Load Option with any of the
\* optional data, or a corrupt record
EditStores ==
    {<<[vn |-> Boot0001Name, Data |-> EditHeader \o o]>> : o \in TextData}
    \cup {<<[vn |-> Boot0001Name, Data |-> CorruptRecord]>>}

\* the command-line arguments: "Boot0001", "Boot000A"
EditArgs == {Boot0001Name.Name, Boot000AName.Name}

\* what the editor may leave in the file other than what it found: "",
\* "\n", "hi\n", "hi", U+00E9 "\n", the byte FF "\n"
EditorTexts ==
    {<<>>, <<10>>, <<104, 105, 10>>, <<104, 105>>, <<195, 169, 10>>, <<255, 10>>}

InitEdit ==
    /\ bs = <<>>
    /\ lo = NoLoadOpt
    /\ perr = "none"
    /\ edits = {}
    /\ out = <<>>
    /\ berr = "none"
    /\ pc = "main"
    /\ store \in EditStores
    /\ ret = NoRet
    /\ unicodeArgs \in BOOLEAN
    /\ tmpfile = <<>>
    /\ var = NilVariable

\* log.Fatalf
Fatal(msg) ==
    /\ pc' = "fatal"
    /\ ret' = [op |-> "efibootedit", fatal |-> msg]

\* main up to the start of the editor (efibootedit.go:56-86): Get,
\* FromVariable, the text view and a newline written to the temporary
\* file; ioerr when TempFile, Write or Close fails
EditStart(arg, unreadable, ioerr) ==
    /\ pc = "main"
    /\ LET g == Get(store, [GUID |-> GlobalUUID, Name |-> arg], unreadable)
           l == FromVariable(g.v)
           data == IF unicodeArgs THEN InterpretAsUCS2(l.lo.OptionalData)
                   ELSE [outcome |-> "returned", str |-> InterpretAsUTF8(l.lo.OptionalData)]
       IN  IF g.err # "nil"
           THEN Fatal("Get") /\ UNCHANGED <<bs, lo, perr, tmpfile, var>>
           ELSE IF l.err # "nil"
           THEN /\ Fatal("FromVariable")
                /\ bs' = g.v.Data
                /\ var' = g.v
                /\ perr' = l.err
                /\ UNCHANGED <<lo, tmpfile>>
           ELSE /\ bs' = g.v.Data
                /\ var' = g.v
                /\ perr' = l.err
                /\ lo' = l.lo
                /\ IF ioerr THEN Fatal("TempFile") /\ UNCHANGED tmpfile
                   ELSE IF data.outcome = "panic"
                   THEN pc' = "panic" /\ UNCHANGED <<ret, tmpfile>>
                   ELSE /\ tmpfile' = data.str \o <<10>>
                        /\ pc' = "editor"
                        /\ UNCHANGED ret
    /\ UNCHANGED <<edits, out, berr, store, unicodeArgs>>

\* cmd.Run() (efibootedit.go:88-98): the editor leaves content in the
\* file, or fails
EditorRun(content, failed) ==
    /\ pc = "editor"
    /\ IF failed THEN Fatal("Running editor") /\ UNCHANGED <<tmpfile, edits>>
       ELSE /\ tmpfile' = content
            /\ edits' = IF content = tmpfile THEN {} ELSE {"tmpfile"}
            /\ pc' = "edited"
            /\ UNCHANGED ret
    /\ UNCHANGED <<bs, lo, perr, out, berr, store, unicodeArgs, var>>

\* main after the editor (efibootedit.go:100-126): the file read back, its
\* last byte stripped, the optional data replaced, Bytes(), Set
EditFinish(ioerr, seterr) ==
    /\ pc = "edited"
    /\ IF ioerr THEN Fatal("ReadFile") /\ UNCHANGED <<lo, out, berr, var, store>>
       ELSE IF Len(tmpfile) = 0
       THEN pc' = "panic" /\ UNCHANGED <<ret, lo, out, berr, var, store>>
       ELSE LET newData == SubSeq(tmpfile, 1, Len(tmpfile) - 1)
                l == [lo EXCEPT !.OptionalData = NewOptionalDataOf(newData, unicodeArgs)]
                b == Bytes(l)
            IN  /\ lo' = l
                /\ berr' = b.err
                /\ IF b.err # "nil"
                   THEN Fatal("lo.Bytes") /\ UNCHANGED <<out, var, store>>
                   ELSE /\ out' = b.bytes
                        /\ var' = [var EXCEPT !.Data = b.bytes]
                        /\ IF seterr THEN Fatal("Set") /\ UNCHANGED store
                           ELSE /\ store' = Set(store, [GUID |-> var.GUID, Name |-> var.Name],
                                                b.bytes)
                                /\ pc' = "set"
                                /\ UNCHANGED ret
    /\ UNCHANGED <<bs, perr, edits, unicodeArgs, tmpfile>>

NextEdit ==
    \/ \E arg \in EditArgs, u \in SUBSET {Boot0001Name}, ioerr \in BOOLEAN :
        EditStart(arg, u, ioerr)
    \/ \E content \in {tmpfile} \cup EditorTexts, failed \in BOOLEAN :
        EditorRun(content, failed)
    \/ \E ioerr \in BOOLEAN, seterr \in BOOLEAN : EditFinish(ioerr, seterr)

SpecEdit == InitEdit /\ [][NextEdit]_vars

-----------------------------------------------------------------------------
(* Properties of the codec, under SpecCodec *)

\* C1  Round trip: Bytes() on the unmodified result of a successful
\* FromBytes(bs) succeeds and returns exactly bs.
RoundTrip ==
    (pc = "done" /\ edits = {}) => (berr = "nil" /\ out = bs)

\* a record with a non-ASCII description, a device path with a File node
\* and optional data went through FromBytes and Bytes unmodified
RoundTripWitness ==
    /\ pc = "done"
    /\ edits = {}
    /\ berr = "nil"
    /\ SubSeq(bs, 7, 8) = <<172, 32>>
    /\ Len(lo.rawFilePath) = 9
    /\ Len(lo.OptionalData) = MaxOptLen
    /\ out = bs

\* C2  Mutation guard: with FilePath different from the rendering of the
\* retained raw device path, Bytes() returns an error and no bytes,
\* whatever the other fields hold.
MutationGuard ==
    (pc = "done" /\ lo.FilePath # DevicePathToString(lo.rawFilePath).str)
        => (berr # "nil" /\ out = <<>>)

\* every field was assigned, FilePath to "foo", and Bytes() refused
MutationGuardWitness ==
    /\ pc = "done"
    /\ edits = {"Attributes", "Description", "FilePath", "OptionalData"}
    /\ lo.FilePath = <<102, 111, 111>>
    /\ berr = "changing device path is unimplemented"
    /\ out = <<>>

\* the characters of the model's descriptions: code point and UTF-8 bytes
CharTable ==
    {[cp |-> 0, utf8 |-> <<0>>], [cp |-> 77, utf8 |-> <<77>>],
     [cp |-> 80, utf8 |-> <<80>>], [cp |-> 97, utf8 |-> <<97>>],
     [cp |-> 98, utf8 |-> <<98>>], [cp |-> 233, utf8 |-> <<195, 169>>],
     [cp |-> 8364, utf8 |-> <<226, 130, 172>>]}

\* the UTF-16LE encoding of a string of CharTable characters
RECURSIVE UTF16LE(_)
UTF16LE(s) ==
    IF s = <<>> THEN <<>>
    ELSE LET c == CHOOSE e \in CharTable :
                    Len(e.utf8) <= Len(s) /\ SubSeq(s, 1, Len(e.utf8)) = e.utf8
         IN  <<c.cp % 256, c.cp \div 256>> \o UTF16LE(Drop(s, Len(c.utf8) + 1))

\* the part of a string before its first NUL character
UpToNUL(s) ==
    IF \E i \in 1..Len(s) : s[i] = 0
    THEN SubSeq(s, 1, (CHOOSE i \in 1..Len(s) : s[i] = 0 /\ \A j \in 1..(i - 1) : s[j] # 0) - 1)
    ELSE s

OnlyDescriptionAndData == pc = "done" /\ edits \subseteq {"Description", "OptionalData"}

-----------------------------------------------------------------------------
(* Properties of BootOptions, under SpecEnum *)

\* the names of the BootOptions returned, in the order returned
ReturnedNames ==
    [i \in DOMAIN ret.bos |->
        [GUID |-> ret.bos[i].Variable.GUID, Name |-> ret.bos[i].Variable.Name]]

\* a global-namespace name of 8 characters starting with "Boot", other
\* than BootNext
PassesFilter(vn) ==
    /\ vn.GUID = GlobalUUID
    /\ Len(vn.Name) = 8
    /\ SubSeq(vn.Name, 1, 4) = <<66, 111, 111, 116>>
    /\ vn.Name # <<66, 111, 111, 116, 78, 101, 120, 116>>

\* "Boot" followed by exactly 4 of the digits 0-9, A-F
IsBootHex(name) ==
    /\ Len(name) = 8
    /\ SubSeq(name, 1, 4) = <<66, 111, 111, 116>>
    /\ \A i \in 5..8 : name[i] \in (48..57) \cup (65..70)

\* a < b in lexicographic order
RECURSIVE LexLess(_, _)
LexLess(a, b) ==
    IF b = <<>> THEN FALSE
    ELSE IF a = <<>> THEN TRUE
    ELSE IF Head(a) # Head(b) THEN Head(a) < Head(b)
    ELSE LexLess(Tail(a), Tail(b))

\* C4  Enumeration filtering: a successful BootOptions returns no entry
\* for BootNext, BootOrder, BootCurrent, for a name whose length is not 8
\* or for a variable outside the global namespace; on the example store it
\* returns exactly Boot0001 and Boot000A.
EnumFiltering ==
    (ret.op = "BootOptions" /\ ret.outcome = "ok") =>
        /\ \A i \in DOMAIN ReturnedNames :
            /\ ReturnedNames[i] \notin {BootNextName, BootOrderName, BootCurrentName}
            /\ Len(ReturnedNames[i].Name) = 8
            /\ ReturnedNames[i].GUID = GlobalUUID
        /\ NamesIn(store) = ExampleNames => ReturnedNames = <<Boot0001Name, Boot000AName>>

\* the example store, listing BootSomethingLong first and Boot000A before
\* Boot0001, was enumerated
EnumFilteringWitness ==
    /\ ret.op = "BootOptions"
    /\ ret.outcome = "ok"
    /\ NamesIn(store) = ExampleNames
    /\ store[1].vn = BootSomethingLongName
    /\ store[2].vn = Boot000AName
    /\ store[6].vn = Boot0001Name
    /\ ReturnedNames = <<Boot0001Name, Boot000AName>>

\* C5  Enumeration keeps only names of the form Boot####: every variable
\* BootOptions fetches, parses or returns is named "Boot" followed by
\* exactly 4 uppercase hexadecimal digits.
EnumOnlyBootHex ==
    ret.op = "BootOptions" =>
        /\ \A vn \in ret.fetched : IsBootHex(vn.Name)
        /\ \A i \in DOMAIN ReturnedNames : IsBootHex(ReturnedNames[i].Name)

\* C6  Enumeration order: a successful BootOptions returns the variables
\* that pass the filter, each exactly once, in ascending lexicographic
\* order of their names, whatever the order of the listing.
EnumSorted ==
    (ret.op = "BootOptions" /\ ret.outcome = "ok") =>
        /\ \A i, j \in DOMAIN ReturnedNames :
            i < j => LexLess(ReturnedNames[i].Name, ReturnedNames[j].Name)
        /\ {ReturnedNames[i] : i \in DOMAIN ReturnedNames}
            = {vn \in NamesIn(store) : PassesFilter(vn)}

\* three variables listed in descending order of their names came back
\* in ascending order
EnumSortedWitness ==
    /\ ret.op = "BootOptions"
    /\ ret.outcome = "ok"
    /\ Len(store) >= 3
    /\ store[1].vn = BootTestName
    /\ store[2].vn = Boot000AName
    /\ store[3].vn = Boot0001Name
    /\ ReturnedNames = <<Boot0001Name, Boot000AName, BootTestName>>

\* C7  Enumeration is all-or-nothing: when the fetch or the parse of a
\* variable that passes the filter fails, BootOptions returns an error to
\* its caller and no list.
EnumAllOrNothing ==
    (/\ ret.op = "BootOptions"
     /\ \E vn \in NamesIn(store) :
            /\ PassesFilter(vn)
            /\ vn \in ret.unreadable \/ FromBytes(DataOf(store, vn)).err # "nil")
        => (ret.outcome = "error" /\ ret.bos = <<>>)

-----------------------------------------------------------------------------
(* Properties of BootCurrent, BootNext and BootOrder, under SpecIndex *)

\* the digits of uppercase hexadecimal
HexChars == <<48, 49, 50, 51, 52, 53, 54, 55, 56, 57, 65, 66, 67, 68, 69, 70>>

\* the global-namespace name "Boot" hi lo, each byte as two digits
ExpectedName(lobyte, hibyte) ==
    [GUID |-> "8be4df61-93ca-11d2-aa0d-00e098032b8c",
     Name |-> <<66, 111, 111, 116,
                HexChars[(hibyte \div 16) + 1], HexChars[(hibyte % 16) + 1],
                HexChars[(lobyte \div 16) + 1], HexChars[(lobyte % 16) + 1]>>]

\* the variable a call reads
ReadName ==
    IF ret.op = "BootCurrent" THEN BootCurrentName
    ELSE IF ret.op = "BootNext" THEN BootNextName
    ELSE BootOrderName

\* the call's fetch of its variable succeeded
Fetched == ReadName \in NamesIn(store) /\ ReadName \notin ret.unreadable

\* C8  Single-index resolution: BootCurrent and BootNext succeed exactly
\* when the variable's data is 2 bytes lo, hi, and then return the global
\* name "Boot" hi lo in uppercase hexadecimal (3A 00 gives Boot003A); an
\* even length other than 2 is ErrVariableCorrupted.
SingleIndex ==
    ret.op \in {"BootCurrent", "BootNext"} =>
        IF Fetched
        THEN LET d == DataOf(store, ReadName) IN
            /\ (ret.err = "nil") <=> (Len(d) = 2)
            /\ Len(d) = 2 => ret.name = ExpectedName(d[1], d[2])
            /\ d = <<58, 0>> => ret.name.Name = <<66, 111, 111, 116, 48, 48, 51, 65>>
            /\ (Len(d) % 2 = 0 /\ Len(d) # 2) => ret.err = ErrVariableCorrupted
        ELSE ret.err # "nil"

\* BootNext holding 3A 00 resolved to Boot003A
SingleIndexWitness ==
    /\ ret.op = "BootNext"
    /\ Fetched
    /\ DataOf(store, BootNextName) = <<58, 0>>
    /\ ret.err = "nil"
    /\ ret.name = [GUID |-> GlobalUUID, Name |-> <<66, 111, 111, 116, 48, 48, 51, 65>>]

\* C9  Odd length is corruption: BootOrder, BootCurrent and BootNext on
\* data of odd length return ErrVariableCorrupted and no name.
OddLength ==
    (ret.op \in {"BootOrder", "BootCurrent", "BootNext"} /\ Fetched
     /\ Len(DataOf(store, ReadName)) % 2 = 1) =>
        /\ ret.err = ErrVariableCorrupted
        /\ IF ret.op = "BootOrder" THEN ret.names = <<>> ELSE ret.name = ZeroName

\* BootOrder holding one index and a stray byte was refused
OddLengthWitness ==
    /\ ret.op = "BootOrder"
    /\ Fetched
    /\ Len(DataOf(store, BootOrderName)) = 3
    /\ ret.err = ErrVariableCorrupted
    /\ ret.names = <<>>

\* C10  Index-list resolution: BootOrder on data of even length 2n, n = 0
\* included, returns n global names, the i-th "Boot" then byte 2i+1 then
\* byte 2i in uppercase hexadecimal, in stored order, duplicates kept.
IndexList ==
    (ret.op = "BootOrder" /\ Fetched /\ Len(DataOf(store, BootOrderName)) % 2 = 0) =>
        LET d == DataOf(store, BootOrderName) IN
        /\ ret.err = "nil"
        /\ Len(ret.names) * 2 = Len(d)
        /\ \A i \in 1..Len(ret.names) : ret.names[i] = ExpectedName(d[2 * i - 1], d[2 * i])

\* BootOrder holding the index 3AAB twice resolved to Boot3AAB twice
IndexListWitness ==
    /\ ret.op = "BootOrder"
    /\ Fetched
    /\ DataOf(store, BootOrderName) = <<171, 58, 171, 58>>
    /\ ret.err = "nil"
    /\ Len(ret.names) = 2
    /\ ret.names[1] = ret.names[2]
    /\ ret.names[1].Name = <<66, 111, 111, 116, 51, 65, 65, 66>>

-----------------------------------------------------------------------------
(* Properties of the text views, under SpecText *)

\* the code units of d read as UTF-16LE: low byte first, then high byte
LEUnits(d) == [i \in 1..(Len(d) \div 2) |-> U16At(d, 2 * i - 1)]

\* C11  UCS-2/UTF-16LE view: on optional data d of even length
\* InterpretAsUCS2 returns the UTF-16 decoding of the code units
\* d[2i] + 256 * d[2i+1], whatever the high bytes are.
UCS2View ==
    (ret.op = "InterpretAsUCS2" /\ Len(lo.OptionalData) % 2 = 0)
        => /\ ret.outcome = "returned"
           /\ ret.str = RunesToString(utf16_Decode(LEUnits(lo.OptionalData)))

\* C12  Odd-length UCS-2 decode: on optional data of odd length
\* InterpretAsUCS2 returns the empty string; it does not panic on an index
\* past the end of the data.
OddUCS2 ==
    (ret.op = "InterpretAsUCS2" /\ Len(lo.OptionalData) % 2 = 1)
        => /\ ret.outcome = "returned"
           /\ ret.str = <<>>

OddUCS2Witness ==
    /\ ret.op = "InterpretAsUCS2"
    /\ Len(lo.OptionalData) = 3
    /\ lo.OptionalData[1] # 0
    /\ ret.outcome = "returned"
    /\ ret.str = <<>>

-----------------------------------------------------------------------------
(* Properties of efibootedit, under SpecEdit *)

\* C13  No-op edit preserves the variable: when the editor leaves the
\* temporary file as it found it and main reaches Set, the data passed to
\* Set are the data Get returned, with unicode_data true and false.
NoOpEdit ==
    (pc = "set" /\ edits = {}) => out = bs

====
